---- MODULE Spec2Model ----
(***************************************************************************)
(* eth-balances (src/src/index.ts): ERC-20 balances of one address over a  *)
(* list of token contracts, fetched through the multicall contract.        *)
(*                                                                         *)
(* Spec        getTokenBalances as a state machine: getAddress, the        *)
(*             concurrent balance chunks under Promise.all, the metadata   *)
(*             aggregate call, the decode and the normalisation.           *)
(* SpecChunk, SpecFilter, SpecBuild, SpecDecode                            *)
(*             one exported pure function each, applied to inputs drawn    *)
(*             from bounded sets.                                          *)
(*                                                                         *)
(* Bytes are sequences of 0..255; a string value is the sequence of its    *)
(* character codes; a hex string is a sequence of one-character strings.   *)
(***************************************************************************)
EXTENDS Integers, Sequences, FiniteSets, TLC

VARIABLES
    pc,                 \* position of the running call
    addressOrName,      \* getTokenBalances argument
    chainId,            \* the network the provider is connected to
    contractAddresses,  \* getTokenBalances argument
    chunkSize,          \* getTokenBalances argument
    formatBalance,      \* getTokenBalances argument
    address,            \* result of getAddress
    chunked,            \* result of chunk(contractAddresses, chunkSize)
    promises,           \* one promise per fetchRawBalances call, in chunk order
    settleOrder,        \* the chunks in the order their requests ended, failed or not
    providerLog,        \* provider requests issued so far, in order
    rawBalanceResults,  \* the concatenated non-zero balance results
    rawBalances,        \* resultDataByContract(rawBalanceResults)
    callsContext,       \* buildCallsContext(rawBalanceResults)
    decodedMetaResults, \* decodeMetaResults(metaResults, context)
    infoLog,            \* console.info diagnostics, as <<methodName, contractAddress>>
    outcome,            \* how getTokenBalances settled
    callArgs,           \* arguments of the pure function under test
    callRet             \* its return value

vars == <<pc, addressOrName, chainId, contractAddresses, chunkSize, formatBalance,
          address, chunked, promises, settleOrder, providerLog, rawBalanceResults, rawBalances,
          callsContext, decodedMetaResults, infoLog, outcome, callArgs, callRet>>

pipelineVars == <<addressOrName, chainId, contractAddresses, chunkSize, formatBalance,
                  address, chunked, promises, settleOrder, providerLog, rawBalanceResults,
                  rawBalances, callsContext, decodedMetaResults, infoLog, outcome>>

(***************************************************************************)
(* Bounds of the model.                                                    *)
(***************************************************************************)
MaxAddrs == 3      \* longest contractAddresses list given to getTokenBalances
MaxAddrsNamed == 1 \* the same, when the owner is given by name or the network is not 1
MaxChunk == 2      \* largest chunkSize given to getTokenBalances
MaxItems == 4      \* longest array given to chunk
MaxSize == 3       \* largest size given to chunk
MaxResults == 3    \* longest results list given to getNonZeroResults / buildCallsContext
MaxMeta == 2       \* longest metaResults list given to decodeMetaResults

(***************************************************************************)
(* Sequence helpers.                                                       *)
(***************************************************************************)
SeqsUpTo(S, n) == UNION {[1..k -> S] : k \in 0..n}

RECURSIVE Flatten(_)
Flatten(ss) == IF ss = <<>> THEN <<>> ELSE Head(ss) \o Flatten(Tail(ss))

Range(s) == {s[i] : i \in DOMAIN s}

Zeros(n) == [i \in 1..n |-> 0]

(***************************************************************************)
(* chunk (index.ts 340-357).  chunkLoop is the forEach of lines 343-350,   *)
(* carrying `chunked` and the current `chunk`.                             *)
(***************************************************************************)
RECURSIVE chunkLoop(_, _, _, _)
chunkLoop(array, size, acc, cur) ==
    IF array = <<>> THEN [chunked |-> acc, chunk |-> cur]
    ELSE IF Len(cur) = size
         THEN chunkLoop(Tail(array), size, Append(acc, cur), <<Head(array)>>)
         ELSE chunkLoop(Tail(array), size, acc, Append(cur, Head(array)))

\* mutant: the trailing `if (chunk.length) chunked.push(chunk)` is forgotten
chunk_NoTrailingPush(array, size) == chunkLoop(array, size, <<>>, <<>>).chunked

chunk(array, size) ==
    LET r == chunkLoop(array, size, <<>>, <<>>)
    IN  IF Len(r.chunk) # 0 THEN Append(r.chunked, r.chunk) ELSE r.chunked

(***************************************************************************)
(* Idle values of the variables a specification does not use.              *)
(***************************************************************************)
PipelineIdle ==
    /\ addressOrName = <<>>
    /\ chainId = 0
    /\ contractAddresses = <<>>
    /\ chunkSize = 0
    /\ formatBalance = FALSE
    /\ address = <<>>
    /\ chunked = <<>>
    /\ promises = <<>>
    /\ settleOrder = <<>>
    /\ providerLog = <<>>
    /\ rawBalanceResults = <<>>
    /\ rawBalances = <<>>
    /\ callsContext = [calls |-> <<>>, context |-> <<>>]
    /\ decodedMetaResults = <<>>
    /\ infoLog = <<>>
    /\ outcome = [status |-> "pending", value |-> <<>>, reason |-> <<>>]

(***************************************************************************)
(* SpecChunk: chunk applied to every array over Items of length up to      *)
(* MaxItems and every size in -1..MaxSize.                                 *)
(***************************************************************************)
Items == {"a", "b", "c"}

InitChunk ==
    /\ pc = "call"
    /\ callArgs \in [array : SeqsUpTo(Items, MaxItems), size : -1..MaxSize]
    /\ callRet = [threw |-> FALSE, value |-> <<>>]
    /\ PipelineIdle

CallChunk ==
    /\ pc = "call"
    /\ pc' = "returned"
    /\ callRet' = [threw |-> FALSE, value |-> chunk(callArgs.array, callArgs.size)]
    /\ UNCHANGED <<callArgs, pipelineVars>>

NextChunk == CallChunk

SpecChunk == InitChunk /\ [][NextChunk]_vars

\* C3: for size n > 0, chunk(S, n) concatenates back to S, every group but the
\* last has exactly n elements, no group is empty, and chunk([], n) is empty.
C3_ChunkPartition ==
    (pc = "returned" /\ callArgs.size > 0) =>
        LET out == callRet.value
        IN  /\ ~callRet.threw
            /\ Flatten(out) = callArgs.array
            /\ \A i \in 1..Len(out) : Len(out[i]) # 0
            /\ \A i \in 1..(Len(out) - 1) : Len(out[i]) = callArgs.size
            /\ (callArgs.array = <<>> => out = <<>>)

C3_Witness ==
    /\ pc = "returned"
    /\ callArgs.size = 3
    /\ Len(callArgs.array) = 4
    /\ Len(callRet.value) = 2
    /\ Len(callRet.value[2]) = 1

\* C9: chunk called with size <= 0 signals an error instead of returning groups;
\* it never returns an empty group or a group longer than the requested size.
C9_ChunkRejectsNonPositiveSize ==
    (pc = "returned" /\ callArgs.size <= 0) =>
        /\ callRet.threw
        /\ \A i \in 1..Len(callRet.value) :
              /\ Len(callRet.value[i]) # 0
              /\ Len(callRet.value[i]) <= callArgs.size

(***************************************************************************)
(* Bytes, words and hex strings (ethers: ZeroHash, hexlify).               *)
(***************************************************************************)
WordLen == 32

HexChars == <<"0", "1", "2", "3", "4", "5", "6", "7",
              "8", "9", "a", "b", "c", "d", "e", "f">>

\* the hex string of a byte sequence: "0x" and two digits per byte
Hexlify(bytes) ==
    [i \in 1..(2 + 2 * Len(bytes)) |->
        IF i = 1 THEN "0"
        ELSE IF i = 2 THEN "x"
        ELSE LET b == bytes[(i - 1) \div 2]
             IN  IF i % 2 = 1 THEN HexChars[(b \div 16) + 1]
                              ELSE HexChars[(b % 16) + 1]]

ZeroHash == Hexlify(Zeros(WordLen))

\* the 32-byte big-endian word of n, for n < 2^24
Word(n) == Zeros(WordLen - 3) \o <<n \div 65536, (n \div 256) % 256, n % 256>>

(***************************************************************************)
(* getNonZeroResults (index.ts 113-127).  A CallResult is <<success,       *)
(* returnData>>; `data` in the code is the hex string of returnData.       *)
(***************************************************************************)
Associate(results, addrs) ==
    [i \in 1..Len(results) |->
        <<IF i <= Len(addrs) THEN addrs[i] ELSE "undefined",
          results[i][1], results[i][2]>>]

\* mutant: the expectedFormat test is left out of the filter
getNonZeroResults_NoFormatTest(results, addrs) ==
    SelectSeq(Associate(results, addrs), LAMBDA r : Hexlify(r[3]) # ZeroHash)

getNonZeroResults(results, addrs) ==
    SelectSeq(Associate(results, addrs),
              LAMBDA r :
                  LET data == Hexlify(r[3])
                      hasBalance == data # ZeroHash
                      expectedFormat == Len(data) = Len(ZeroHash)
                  IN  hasBalance /\ expectedFormat)

(***************************************************************************)
(* SpecFilter: getNonZeroResults applied to result lists of length up to   *)
(* MaxResults, with one contract address per result.                       *)
(***************************************************************************)
FilterAddrs == {"0xA", "0xB"}

FilterData == {Zeros(WordLen), Word(1), <<222, 173>>, <<>>, Zeros(WordLen - 1)}

InitFilter ==
    /\ pc = "call"
    /\ \E n \in 0..MaxResults :
          callArgs \in [results : [1..n -> BOOLEAN \X FilterData],
                        contractAddresses : [1..n -> FilterAddrs]]
    /\ callRet = [threw |-> FALSE, value |-> <<>>]
    /\ PipelineIdle

CallGetNonZeroResults ==
    /\ pc = "call"
    /\ pc' = "returned"
    /\ callRet' = [threw |-> FALSE,
                   value |-> getNonZeroResults(callArgs.results,
                                               callArgs.contractAddresses)]
    /\ UNCHANGED <<callArgs, pipelineVars>>

NextFilter == CallGetNonZeroResults

SpecFilter == InitFilter /\ [][NextFilter]_vars

\* the indices whose returnData is exactly 32 bytes and not all zero
KeptIndices(results) ==
    {i \in 1..Len(results) :
        /\ Len(results[i][2]) = WordLen
        /\ \E j \in 1..WordLen : results[i][2][j] # 0}

NthOf(S, k) == CHOOSE i \in S : Cardinality({j \in S : j < i}) = k - 1

\* C1: getNonZeroResults returns exactly the triples (address, success, data) of
\* the indices whose data is 32 bytes long and not all zero, in increasing index
\* order, whatever the success flags; nothing is thrown.
C1_FilterKeepsExactlyNonZeroWords ==
    (pc = "returned") =>
        LET res == callArgs.results
            kept == KeptIndices(res)
            out == callRet.value
        IN  /\ ~callRet.threw
            /\ Len(out) = Cardinality(kept)
            /\ \A k \in 1..Len(out) :
                  LET i == NthOf(kept, k)
                  IN  out[k] = <<callArgs.contractAddresses[i], res[i][1], res[i][2]>>

\* the example of the specification, with a failed call that is kept as well
C1_Witness ==
    /\ pc = "returned"
    /\ Len(callArgs.results) = 3
    /\ callArgs.results[1] = <<TRUE, Zeros(WordLen)>>
    /\ callArgs.results[2] = <<FALSE, Word(1)>>
    /\ callArgs.results[3] = <<TRUE, <<222, 173>>>>
    /\ callRet.value = <<<<callArgs.contractAddresses[2], FALSE, Word(1)>>>>

(***************************************************************************)
(* buildCallsContext (index.ts 158-175).                                   *)
(***************************************************************************)
Selector(methodName) ==
    CASE methodName = "balanceOf" -> "0x70a08231"
      [] methodName = "symbol"    -> "0x95d89b41"
      [] methodName = "decimals"  -> "0x313ce567"
      [] methodName = "name"      -> "0x06fdde03"

\* erc20Interface.encodeFunctionData: the selector followed by the arguments
encodeFunctionData(methodName, args) == <<Selector(methodName)>> \o args

MetaMethods == <<"symbol", "decimals", "name">>

\* ["symbol", "decimals", "name"].map(...) of line 163
MetaCalls(contractAddress, methods) ==
    [j \in 1..Len(methods) |->
        [target |-> contractAddress, callData |-> encodeFunctionData(methods[j], <<>>)]]

\* ["symbol", "decimals", "name"].map(...) of line 169
MetaContext(contractAddress, methods) ==
    [j \in 1..Len(methods) |->
        [contractAddress |-> contractAddress, methodName |-> methods[j]]]

\* contractAddresses.flatMap(...) of lines 162 and 168
RECURSIVE FlatMapCalls(_, _)
FlatMapCalls(addrs, methods) ==
    IF addrs = <<>> THEN <<>>
    ELSE MetaCalls(Head(addrs), methods) \o FlatMapCalls(Tail(addrs), methods)

RECURSIVE FlatMapContext(_, _)
FlatMapContext(addrs, methods) ==
    IF addrs = <<>> THEN <<>>
    ELSE MetaContext(Head(addrs), methods) \o FlatMapContext(Tail(addrs), methods)

\* mutant: the context lists the methods in another order than the calls
buildCallsContext_ContextOrder(associatedResults) ==
    LET addrs == [i \in 1..Len(associatedResults) |-> associatedResults[i][1]]
    IN  [calls   |-> FlatMapCalls(addrs, MetaMethods),
         context |-> FlatMapContext(addrs, <<"symbol", "name", "decimals">>)]

buildCallsContext(associatedResults) ==
    LET addrs == [i \in 1..Len(associatedResults) |-> associatedResults[i][1]]
    IN  [calls   |-> FlatMapCalls(addrs, MetaMethods),
         context |-> FlatMapContext(addrs, MetaMethods)]

(***************************************************************************)
(* SpecBuild: buildCallsContext applied to associated results of length up *)
(* to MaxResults, repeated addresses included.                             *)
(***************************************************************************)
BuildAddrs == {"0xA", "0xB", "0xC"}

InitBuild ==
    /\ pc = "call"
    /\ callArgs \in [associatedResults :
                        SeqsUpTo(BuildAddrs \X BOOLEAN \X {Word(1), Word(500)}, MaxResults)]
    /\ callRet = [threw |-> FALSE, value |-> [calls |-> <<>>, context |-> <<>>]]
    /\ PipelineIdle

CallBuildCallsContext ==
    /\ pc = "call"
    /\ pc' = "returned"
    /\ callRet' = [threw |-> FALSE, value |-> buildCallsContext(callArgs.associatedResults)]
    /\ UNCHANGED <<callArgs, pipelineVars>>

NextBuild == CallBuildCallsContext

SpecBuild == InitBuild /\ [][NextBuild]_vars

\* the addresses of a list in order of first occurrence
RECURSIVE Distinct(_)
Distinct(s) ==
    IF s = <<>> THEN <<>>
    ELSE LET d == Distinct(SubSeq(s, 1, Len(s) - 1))
         IN  IF s[Len(s)] \in Range(d) THEN d ELSE Append(d, s[Len(s)])

InputAddrs == [i \in 1..Len(callArgs.associatedResults) |-> callArgs.associatedResults[i][1]]

\* calls and context are 3 entries per element of addrs, in method order symbol,
\* decimals, name, and correspond position by position
BuiltFor(addrs, out) ==
    /\ Len(out.calls) = 3 * Len(addrs)
    /\ Len(out.context) = Len(out.calls)
    /\ \A k \in 1..Len(addrs) : \A j \in 1..3 :
          LET i == 3 * (k - 1) + j
          IN  /\ out.context[i] = [contractAddress |-> addrs[k], methodName |-> MetaMethods[j]]
              /\ out.calls[i].target = addrs[k]
    /\ \A i \in 1..Len(out.calls) :
          /\ out.calls[i].target = out.context[i].contractAddress
          /\ out.calls[i].callData = encodeFunctionData(out.context[i].methodName, <<>>)

\* C4 (as claimed): 3 calls and 3 context entries per DISTINCT contract address of
\* the input, in order of first occurrence.
C4_ThreeCallsPerDistinctAddress ==
    (pc = "returned") => BuiltFor(Distinct(InputAddrs), callRet.value)

\* C4 (amended): 3 calls and 3 context entries per ENTRY of the input, in input
\* order (an address that occurs twice gets 6), in method order symbol, decimals,
\* name; calls and context have the same length and correspond positionally.
C4_ThreeCallsPerEntry ==
    (pc = "returned") => BuiltFor(InputAddrs, callRet.value)

C4_Witness ==
    /\ pc = "returned"
    /\ InputAddrs = <<"0xB", "0xA", "0xB">>
    /\ Len(callRet.value.calls) = 9
    /\ callRet.value.context[7] = [contractAddress |-> "0xB", methodName |-> "symbol"]

(***************************************************************************)
(* ABI values as the multicall contract returns them, and their decoders   *)
(* (ethers: AbiCoder.decode of one type, decodeBytes32String).  Character  *)
(* data is ASCII; lengths and offsets are below 2^24.                       *)
(***************************************************************************)
\* bytes padded with zeros on the right to a multiple of 32
PadRight(bytes) == bytes \o Zeros((WordLen - (Len(bytes) % WordLen)) % WordLen)

\* the ABI encoding of one dynamic string: offset word, length word, padded bytes
AbiString(str) == Word(WordLen) \o Word(Len(str)) \o PadRight(str)

\* a string stored by a non-compliant token as a null-padded bytes32
Bytes32String(str) == str \o Zeros(WordLen - Len(str))

\* the word at byte offset `at` as a number; -1 when it is 2^24 or more, which is
\* past the end of every byte sequence here
WordAt(data, at) ==
    IF \E i \in 1..(WordLen - 3) : data[at + i] # 0 THEN -1
    ELSE data[at + WordLen - 2] * 65536 + data[at + WordLen - 1] * 256 + data[at + WordLen]

IsUtf8(bytes) == \A i \in 1..Len(bytes) : bytes[i] < 128

\* coder.decode(["uint8"], data) and coder.decode(["uint256"], data): one word is
\* read and masked to the width of the type
AbiDecodeUint(bits, data) ==
    IF Len(data) < WordLen THEN [ok |-> FALSE]
    ELSE IF bits = 8 THEN [ok |-> TRUE, kind |-> "bigint", value |-> data[WordLen]]
    ELSE [ok |-> TRUE, kind |-> "bigint", value |-> WordAt(data, 0)]

\* coder.decode(["string"], data): offset word, then length word and bytes there
AbiDecodeString(data) ==
    IF Len(data) < WordLen THEN [ok |-> FALSE]
    ELSE LET offset == WordAt(data, 0)
         IN  IF offset < 0 \/ Len(data) < offset + WordLen THEN [ok |-> FALSE]
             ELSE LET len == WordAt(data, offset)
                  IN  IF len < 0 \/ Len(data) < offset + WordLen + Len(PadRight(Zeros(len)))
                      THEN [ok |-> FALSE]
                      ELSE LET str == SubSeq(data, offset + WordLen + 1, offset + WordLen + len)
                           IN  IF IsUtf8(str)
                               THEN [ok |-> TRUE, kind |-> "string", value |-> str]
                               ELSE [ok |-> FALSE]

\* fragmentTypes (index.ts 18-30): the output type of each ERC-20 method
fragmentTypes(methodName) ==
    CASE methodName \in {"symbol", "name"} -> "string"
      [] methodName = "decimals" -> "uint8"
      [] methodName \in {"balanceOf", "totalSupply", "allowance"} -> "uint256"
      [] OTHER -> "undefined"

AbiDecode(type, data) ==
    CASE type = "string"  -> AbiDecodeString(data)
      [] type = "uint8"   -> AbiDecodeUint(8, data)
      [] type = "uint256" -> AbiDecodeUint(256, data)
      [] OTHER -> [ok |-> FALSE]

\* decodeBytes32String: exactly 32 bytes ending in a null, cut at the trailing nulls
decodeBytes32String(data) ==
    IF Len(data) # WordLen THEN [ok |-> FALSE]
    ELSE IF data[WordLen] # 0 THEN [ok |-> FALSE]
    ELSE LET nonNull == {i \in 1..(WordLen - 1) : data[i] # 0}
             length == IF nonNull = {} THEN 0
                       ELSE CHOOSE i \in nonNull : \A j \in nonNull : j <= i
             str == SubSeq(data, 1, length)
         IN  IF IsUtf8(str) THEN [ok |-> TRUE, kind |-> "string", value |-> str]
                            ELSE [ok |-> FALSE]

\* Number(methodValue): a bigint converts; of the strings only the empty one is
\* modelled as a number (0), any other as NaN
NaN == -1

ToNumber(decoded) ==
    IF decoded.kind = "bigint" THEN decoded.value
    ELSE IF decoded.value = <<>> THEN 0 ELSE NaN

(***************************************************************************)
(* decodeMetaResults (index.ts 184-215).  A map is a function on its keys. *)
(***************************************************************************)
EmptyMap == <<>>

Put(map, key, value) ==
    [k \in (DOMAIN map) \cup {key} |-> IF k = key THEN value ELSE map[k]]

Get(map, key) == IF key \in DOMAIN map THEN map[key] ELSE EmptyMap

\* mutant: `...meta[contractAddress]` is left out of the new entry
Merge_NoSpread(meta, contractAddress, methodName, value) ==
    Put(meta, contractAddress, Put(EmptyMap, methodName, value))

\* lines 207-213: { ...meta, [contractAddress]: { ...meta[contractAddress], [methodName]: value } }
Merge(meta, contractAddress, methodName, value) ==
    Put(meta, contractAddress, Put(Get(meta, contractAddress), methodName, value))

\* the body of the reduce callback, lines 193-205: the try, the catch and the
\* coercion of decimals
decodeOne(methodName, data) ==
    LET abi == AbiDecode(fragmentTypes(methodName), data)
        fallback == decodeBytes32String(data)
        decoded == IF abi.ok THEN abi ELSE fallback
    IN  IF ~decoded.ok THEN [threw |-> TRUE, info |-> TRUE, value |-> <<>>]
        ELSE [threw |-> FALSE,
              info  |-> ~abi.ok,
              value |-> IF methodName = "decimals" THEN ToNumber(decoded) ELSE decoded.value]

RECURSIVE decodeLoop(_, _, _, _, _)
decodeLoop(metaResults, context, index, meta, infos) ==
    IF index > Len(metaResults) THEN [threw |-> FALSE, meta |-> meta, infos |-> infos]
    ELSE IF index > Len(context) THEN [threw |-> TRUE, meta |-> meta, infos |-> infos]
    ELSE LET data == metaResults[index][2]
             contractAddress == context[index].contractAddress
             methodName == context[index].methodName
             one == decodeOne(methodName, data)
             logged == IF one.info THEN Append(infos, <<methodName, contractAddress>>)
                       ELSE infos
         IN  IF one.threw THEN [threw |-> TRUE, meta |-> meta, infos |-> logged]
             ELSE decodeLoop(metaResults, context, index + 1,
                             Merge(meta, contractAddress, methodName, one.value), logged)

decodeMetaResults(metaResults, context) ==
    decodeLoop(metaResults, context, 1, EmptyMap, <<>>)

(***************************************************************************)
(* SpecDecode: decodeMetaResults applied to result lists of length up to   *)
(* MaxMeta with a context of the same length.                              *)
(***************************************************************************)
Str_TKA == <<84, 75, 65>>
Str_MKR == <<77, 75, 82>>

DecodeResults ==
    { <<TRUE, AbiString(Str_TKA)>>,        \* a compliant string
      <<TRUE, Bytes32String(Str_MKR)>>,    \* a bytes32 string
      <<TRUE, Word(18)>>,                  \* a number
      <<FALSE, <<>>>>,                     \* a reverted call: no return data
      <<TRUE, [i \in 1..WordLen |-> 65]>> } \* 32 characters, no terminating null

DecodeContext ==
    [contractAddress : {"0xA", "0xB"}, methodName : Range(MetaMethods)]

InitDecode ==
    /\ pc = "call"
    /\ \E n \in 0..MaxMeta :
          callArgs \in [metaResults : [1..n -> DecodeResults],
                        context : [1..n -> DecodeContext]]
    /\ callRet = [threw |-> FALSE, meta |-> EmptyMap, infos |-> <<>>]
    /\ PipelineIdle

CallDecodeMetaResults ==
    /\ pc = "call"
    /\ pc' = "returned"
    /\ callRet' = decodeMetaResults(callArgs.metaResults, callArgs.context)
    /\ UNCHANGED <<callArgs, pipelineVars>>

NextDecode == CallDecodeMetaResults

SpecDecode == InitDecode /\ [][NextDecode]_vars

\* C5: a metadata result whose ABI decoding fails is non-fatal: a diagnostic is
\* emitted, the fallback value is used, nothing is thrown and every entry of the
\* batch is decoded.
C5_DecodeFailureIsNonFatal ==
    (pc = "returned") =>
        /\ ~callRet.threw
        /\ \A i \in 1..Len(callArgs.context) :
              LET c == callArgs.context[i]
              IN  /\ c.contractAddress \in DOMAIN callRet.meta
                  /\ c.methodName \in DOMAIN callRet.meta[c.contractAddress]
                  /\ (~AbiDecode(fragmentTypes(c.methodName), callArgs.metaResults[i][2]).ok
                        => <<c.methodName, c.contractAddress>> \in Range(callRet.infos))

\* what does hold: the bytes32 fallback of the specification's example
C5_Bytes32FallbackDecodes ==
    (pc = "returned" /\ callArgs.metaResults = <<<<TRUE, Bytes32String(Str_MKR)>>>>
                     /\ callArgs.context[1].methodName = "symbol") =>
        /\ ~callRet.threw
        /\ callRet.meta[callArgs.context[1].contractAddress]["symbol"] = Str_MKR
        /\ Len(callRet.infos) = 1


(***************************************************************************)
(* resultDataByContract (index.ts 135-148).                                *)
(***************************************************************************)
RECURSIVE resultDataLoop(_, _)
resultDataLoop(associatedCallResults, balances) ==
    IF associatedCallResults = <<>> THEN balances
    ELSE resultDataLoop(Tail(associatedCallResults),
                        Put(balances, Head(associatedCallResults)[1],
                            Head(associatedCallResults)[3]))

resultDataByContract(associatedCallResults) ==
    resultDataLoop(associatedCallResults, EmptyMap)

(***************************************************************************)
(* balancesByContract (index.ts 225-247) and the two renderings of a       *)
(* balance: decoded.toString() and formatUnits(decoded.toString(), d).     *)
(***************************************************************************)
RECURSIVE Digits(_)
Digits(n) == IF n < 10 THEN <<HexChars[n + 1]>>
             ELSE Append(Digits(n \div 10), HexChars[(n % 10) + 1])

\* the last d decimal digits of n, zero-padded on the left
RECURSIVE FractionDigits(_, _)
FractionDigits(n, d) ==
    IF d = 0 THEN <<>> ELSE Append(FractionDigits(n \div 10, d - 1), HexChars[(n % 10) + 1])

\* n without its last d decimal digits
RECURSIVE WholePart(_, _)
WholePart(n, d) == IF d = 0 THEN n ELSE WholePart(n \div 10, d - 1)

\* trailing zeros go, but one digit stays after the point
RECURSIVE StripZeros(_)
StripZeros(frac) ==
    IF Len(frac) > 1 /\ frac[Len(frac)] = "0" THEN StripZeros(SubSeq(frac, 1, Len(frac) - 1))
    ELSE frac

formatUnits(value, decimals) ==
    IF decimals = 0 THEN Digits(value)
    ELSE Digits(WholePart(value, decimals)) \o <<".">> \o StripZeros(FractionDigits(value, decimals))

\* the reduce callback of lines 231-244 throws when the balance of a key is
\* missing or undecodable, or when formatUnits is handed decimals that are NaN
BalanceThrows(metaDataByContract, balanceDataByContract, format, contractAddress) ==
    \/ contractAddress \notin DOMAIN balanceDataByContract
    \/ ~AbiDecodeUint(256, balanceDataByContract[contractAddress]).ok
    \/ /\ format
       /\ "decimals" \in DOMAIN metaDataByContract[contractAddress]
       /\ metaDataByContract[contractAddress]["decimals"] = NaN

BalanceString(metaDataByContract, balanceDataByContract, format, contractAddress) ==
    LET decoded == AbiDecodeUint(256, balanceDataByContract[contractAddress]).value
        decimals == IF "decimals" \in DOMAIN metaDataByContract[contractAddress]
                    THEN metaDataByContract[contractAddress]["decimals"]
                    ELSE 18   \* the unit formatUnits takes when it is given none
    IN  IF format THEN formatUnits(decoded, decimals) ELSE Digits(decoded)

balancesByContract(metaDataByContract, balanceDataByContract, format) ==
    IF \E k \in DOMAIN metaDataByContract :
          BalanceThrows(metaDataByContract, balanceDataByContract, format, k)
    THEN [threw |-> TRUE, value |-> EmptyMap]
    ELSE [threw |-> FALSE,
          value |-> [k \in DOMAIN metaDataByContract |->
                        Put(metaDataByContract[k], "balanceOf",
                            BalanceString(metaDataByContract, balanceDataByContract, format, k))]]

(***************************************************************************)
(* The provider: the network, its name registry, the token contracts and   *)
(* the multicall contract (tryBlockAndAggregate with requireSuccess false: *)
(* one result per call, in the order of the calls).                        *)
(***************************************************************************)
AddressChars == 42

OwnerAddress == <<"0", "x">> \o [i \in 1..(AddressChars - 2) |-> "a"]

MalformedAddress == <<"0", "x">> \o [i \in 1..(AddressChars - 3) |-> "a"]

OwnerName == <<"o", "w", "n", "e", "r", ".", "e", "t", "h">>

UnknownName == <<"n", "o", "n", "e", ".", "e", "t", "h">>

\* provider.resolveName: the address of a registered name, or null (here <<>>)
resolveName(name) == IF name = OwnerName THEN OwnerAddress ELSE <<>>

\* ethers isAddress, on lower-case input: "0x" and 40 hex digits
isAddress(str) ==
    /\ Len(str) = AddressChars
    /\ str[1] = "0"
    /\ str[2] = "x"
    /\ \A i \in 3..AddressChars : str[i] \in Range(HexChars)

Str_ZRO == <<90, 82, 79>>
Str_BAD == <<66, 65, 68>>

Tokens == {"0xTKA", "0xZRO", "0xMKR", "0xBAD"}

\* what each token contract returns to a call, as <<success, returnData>>
BalanceOfReturn(target, args) ==
    IF args # <<OwnerAddress>> THEN <<TRUE, Word(0)>>
    ELSE CASE target = "0xTKA" -> <<TRUE, Word(500)>>
           [] target = "0xZRO" -> <<TRUE, Word(0)>>
           [] target = "0xMKR" -> <<TRUE, Word(1)>>
           [] target = "0xBAD" -> <<TRUE, Word(7)>>

DecimalsReturn(target) ==
    CASE target = "0xTKA" -> <<TRUE, Word(2)>>
      [] target = "0xZRO" -> <<TRUE, Word(6)>>
      [] target = "0xMKR" -> <<TRUE, Word(18)>>
      [] target = "0xBAD" -> <<TRUE, Word(0)>>

SymbolReturn(target) ==
    CASE target = "0xTKA" -> <<TRUE, AbiString(Str_TKA)>>
      [] target = "0xZRO" -> <<TRUE, AbiString(Str_ZRO)>>
      [] target = "0xMKR" -> <<TRUE, Bytes32String(Str_MKR)>>
      [] target = "0xBAD" -> <<FALSE, <<>>>>   \* symbol() reverts

NameReturn(target) ==
    CASE target = "0xTKA" -> <<TRUE, AbiString(Str_TKA)>>
      [] target = "0xZRO" -> <<TRUE, AbiString(Str_ZRO)>>
      [] target = "0xMKR" -> <<TRUE, Bytes32String(Str_MKR)>>
      [] target = "0xBAD" -> <<TRUE, AbiString(Str_BAD)>>

\* an address without code: every call succeeds and returns nothing
TokenReturn(target, selector, args) ==
    IF target \notin Tokens THEN <<TRUE, <<>>>>
    ELSE IF selector = Selector("balanceOf") THEN BalanceOfReturn(target, args)
    ELSE IF selector = Selector("decimals") THEN DecimalsReturn(target)
    ELSE IF selector = Selector("symbol") THEN SymbolReturn(target)
    ELSE NameReturn(target)

tryBlockAndAggregate(calls) ==
    [i \in 1..Len(calls) |->
        TokenReturn(calls[i].target, calls[i].callData[1], Tail(calls[i].callData))]

(***************************************************************************)
(* getAddress (index.ts 256-269).                                          *)
(***************************************************************************)
\* mutant: names are resolved on every network
SupportsEns_AnyChain(id) == TRUE

\* line 260: chainId === BigInt(1)
SupportsEns(id) == id = 1

Rejected(reason) == [status |-> "rejected", value |-> <<>>, reason |-> reason]

Fulfilled(value) == [status |-> "fulfilled", value |-> value, reason |-> <<>>]

\* line 257
GetAddressReturnsInput ==
    /\ pc = "getAddress"
    /\ isAddress(addressOrName)
    /\ address' = addressOrName
    /\ pc' = "chunk"
    /\ UNCHANGED <<addressOrName, chainId, contractAddresses, chunkSize, formatBalance,
                   chunked, promises, settleOrder, providerLog, rawBalanceResults,
                   rawBalances, callsContext, decodedMetaResults, infoLog, outcome,
                   callArgs, callRet>>

\* line 258, up to the await
GetNetwork ==
    /\ pc = "getAddress"
    /\ ~isAddress(addressOrName)
    /\ providerLog' = Append(providerLog, [method |-> "getNetwork"])
    /\ pc' = "getNetwork"
    /\ UNCHANGED <<addressOrName, chainId, contractAddresses, chunkSize, formatBalance,
                   address, chunked, promises, settleOrder, rawBalanceResults,
                   rawBalances, callsContext, decodedMetaResults, infoLog, outcome,
                   callArgs, callRet>>

\* lines 258-268, from the answer of getNetwork to the next await or the throw
GetNetworkAnswered ==
    /\ pc = "getNetwork"
    /\ IF SupportsEns(chainId)
       THEN /\ providerLog' = Append(providerLog,
                                     [method |-> "resolveName", name |-> addressOrName])
            /\ pc' = "resolveName"
            /\ UNCHANGED outcome
       ELSE /\ pc' = "rejected"
            /\ outcome' = Rejected([error |-> "Chain does not support ENS", chainId |-> chainId])
            /\ UNCHANGED providerLog
    /\ UNCHANGED <<addressOrName, chainId, contractAddresses, chunkSize, formatBalance,
                   address, chunked, promises, settleOrder, rawBalanceResults,
                   rawBalances, callsContext, decodedMetaResults, infoLog,
                   callArgs, callRet>>

\* lines 261-263, from the answer of resolveName
ResolveNameAnswered ==
    /\ pc = "resolveName"
    /\ LET resolved == resolveName(addressOrName)
       IN  IF resolved # <<>>
           THEN /\ address' = resolved
                /\ pc' = "chunk"
                /\ UNCHANGED outcome
           ELSE /\ pc' = "rejected"
                /\ outcome' = Rejected([error |-> "Invalid ENS domain."])
                /\ UNCHANGED address
    /\ UNCHANGED <<addressOrName, chainId, contractAddresses, chunkSize, formatBalance,
                   chunked, promises, settleOrder, providerLog, rawBalanceResults,
                   rawBalances, callsContext, decodedMetaResults, infoLog,
                   callArgs, callRet>>

\* getNetwork or resolveName fails in the provider: the await of line 258 or 261
\* throws and getTokenBalances is rejected with the provider's error
ProviderRequestFails ==
    /\ pc \in {"getNetwork", "resolveName"}
    /\ pc' = "rejected"
    /\ outcome' = Rejected([error |-> "ProviderError", request |-> pc])
    /\ UNCHANGED <<addressOrName, chainId, contractAddresses, chunkSize, formatBalance,
                   address, chunked, promises, settleOrder, providerLog, rawBalanceResults,
                   rawBalances, callsContext, decodedMetaResults, infoLog,
                   callArgs, callRet>>

(***************************************************************************)
(* aggregate (index.ts 319-331) and fetchRawBalances (index.ts 89-104).    *)
(***************************************************************************)
\* mutant: a batch without calls is not sent
AggregateRequest_SkipsEmpty(calls) ==
    IF calls = <<>> THEN <<>>
    ELSE <<[method |-> "tryBlockAndAggregate", requireSuccess |-> FALSE, calls |-> calls]>>

\* lines 325-328: the one staticCall an aggregate call issues
AggregateRequest(calls) ==
    <<[method |-> "tryBlockAndAggregate", requireSuccess |-> FALSE, calls |-> calls]>>

\* lines 96-99
BalanceCalls(owner, addrs) ==
    [i \in 1..Len(addrs) |->
        [target |-> addrs[i], callData |-> encodeFunctionData("balanceOf", <<owner>>)]]

\* lines 100-103, from the answer of the multicall contract
fetchRawBalances(owner, addrs) ==
    getNonZeroResults(tryBlockAndAggregate(BalanceCalls(owner, addrs)), addrs)

RECURSIVE RequestsOf(_, _)
RequestsOf(owner, chunks) ==
    IF chunks = <<>> THEN <<>>
    ELSE AggregateRequest(BalanceCalls(owner, Head(chunks))) \o RequestsOf(owner, Tail(chunks))

AggregateRequests == SelectSeq(providerLog, LAMBDA r : r.method = "tryBlockAndAggregate")

(***************************************************************************)
(* getTokenBalances (index.ts 278-310).                                    *)
(***************************************************************************)
Pending == [state |-> "pending", value |-> <<>>, reason |-> <<>>]

\* mutant: a chunk whose aggregate call fails counts as a chunk without balances
ChunkRejection_Isolated(i, awaiting) ==
    [promise |-> [state |-> "fulfilled", value |-> <<>>, reason |-> <<>>],
     all     |-> FALSE]

\* lines 100 and 293: the rejection of aggregate rejects the chunk's promise, and
\* the first rejected promise rejects Promise.all
ChunkRejection(i, awaiting) ==
    [promise |-> [state |-> "rejected", value |-> <<>>,
                  reason |-> [error |-> "TransportError", chunk |-> i]],
     all     |-> awaiting]

\* mutant: the values are collected in the order the promises settled
PromiseAllValues_SettleOrder(ps, order) == [k \in 1..Len(ps) |-> ps[order[k].chunk].value]

\* line 293: Promise.all yields the values in the order of its argument
PromiseAllValues(ps, order) == [i \in 1..Len(ps) |-> ps[i].value]

\* line 303: results.reduce((acc, res) => [...acc, ...res], [])
RECURSIVE ReduceConcat(_)
ReduceConcat(results) ==
    IF results = <<>> THEN <<>>
    ELSE ReduceConcat(SubSeq(results, 1, Len(results) - 1)) \o results[Len(results)]

\* lines 292-302, up to the await: every chunk's request is sent
FetchChunks ==
    /\ pc = "chunk"
    /\ chunked' = chunk(contractAddresses, chunkSize)
    /\ promises' = [i \in 1..Len(chunked') |-> Pending]
    /\ providerLog' = providerLog \o RequestsOf(address, chunked')
    /\ pc' = "awaitAll"
    /\ UNCHANGED <<addressOrName, chainId, contractAddresses, chunkSize, formatBalance,
                   address, settleOrder, rawBalanceResults, rawBalances, callsContext,
                   decodedMetaResults, infoLog, outcome, callArgs, callRet>>

\* the multicall contract answers the request of chunk i
ChunkAnswered(i) ==
    /\ pc \in {"awaitAll", "rejected"}
    /\ promises[i].state = "pending"
    /\ promises' = [promises EXCEPT ![i] =
                       [state |-> "fulfilled", value |-> fetchRawBalances(address, chunked[i]),
                        reason |-> <<>>]]
    /\ settleOrder' = Append(settleOrder, [chunk |-> i, failed |-> FALSE])
    /\ UNCHANGED <<pc, addressOrName, chainId, contractAddresses, chunkSize, formatBalance,
                   address, chunked, providerLog, rawBalanceResults, rawBalances,
                   callsContext, decodedMetaResults, infoLog, outcome, callArgs, callRet>>

\* the request of chunk i fails
ChunkFails(i) ==
    /\ pc \in {"awaitAll", "rejected"}
    /\ promises[i].state = "pending"
    /\ LET r == ChunkRejection(i, pc = "awaitAll")
       IN  /\ promises' = [promises EXCEPT ![i] = r.promise]
           /\ IF r.all
              THEN /\ pc' = "rejected"
                   /\ outcome' = Rejected(r.promise.reason)
              ELSE UNCHANGED <<pc, outcome>>
    /\ settleOrder' = Append(settleOrder, [chunk |-> i, failed |-> TRUE])
    /\ UNCHANGED <<addressOrName, chainId, contractAddresses, chunkSize, formatBalance,
                   address, chunked, providerLog, rawBalanceResults, rawBalances,
                   callsContext, decodedMetaResults, infoLog, callArgs, callRet>>

\* lines 303-306, up to the await: every promise is fulfilled
RequestMeta ==
    /\ pc = "awaitAll"
    /\ \A i \in DOMAIN promises : promises[i].state = "fulfilled"
    /\ rawBalanceResults' = ReduceConcat(PromiseAllValues(promises, settleOrder))
    /\ rawBalances' = resultDataByContract(rawBalanceResults')
    /\ callsContext' = buildCallsContext(rawBalanceResults')
    /\ providerLog' = providerLog \o AggregateRequest(callsContext'.calls)
    /\ pc' = "awaitMeta"
    /\ UNCHANGED <<addressOrName, chainId, contractAddresses, chunkSize, formatBalance,
                   address, chunked, promises, settleOrder, decodedMetaResults, infoLog,
                   outcome, callArgs, callRet>>

\* lines 306-309, from the answer of the multicall contract
MetaAnswered ==
    /\ pc = "awaitMeta"
    /\ LET metaResults == tryBlockAndAggregate(callsContext.calls)
           decoded == decodeMetaResults(metaResults, callsContext.context)
           balances == balancesByContract(decoded.meta, rawBalances, formatBalance)
       IN  /\ infoLog' = decoded.infos
           /\ IF decoded.threw
              THEN /\ pc' = "rejected"
                   /\ outcome' = Rejected([error |-> "DecodeError"])
                   /\ UNCHANGED decodedMetaResults
              ELSE /\ decodedMetaResults' = decoded.meta
                   /\ IF balances.threw
                      THEN /\ pc' = "rejected"
                           /\ outcome' = Rejected([error |-> "NormalizeError"])
                      ELSE /\ pc' = "fulfilled"
                           /\ outcome' = Fulfilled(balances.value)
    /\ UNCHANGED <<addressOrName, chainId, contractAddresses, chunkSize, formatBalance,
                   address, chunked, promises, settleOrder, providerLog, rawBalanceResults,
                   rawBalances, callsContext, callArgs, callRet>>

\* the metadata request fails
MetaFails ==
    /\ pc = "awaitMeta"
    /\ pc' = "rejected"
    /\ outcome' = Rejected([error |-> "TransportError", chunk |-> 0])
    /\ UNCHANGED <<addressOrName, chainId, contractAddresses, chunkSize, formatBalance,
                   address, chunked, promises, settleOrder, providerLog, rawBalanceResults,
                   rawBalances, callsContext, decodedMetaResults, infoLog, callArgs, callRet>>

Init ==
    /\ pc = "getAddress"
    /\ \/ /\ addressOrName \in {OwnerAddress, OwnerName, UnknownName, MalformedAddress}
          /\ chainId \in {1, 5}
          /\ contractAddresses \in SeqsUpTo(Tokens, MaxAddrsNamed)
       \/ /\ addressOrName = OwnerAddress
          /\ chainId = 1
          /\ contractAddresses \in SeqsUpTo(Tokens, MaxAddrs)
    /\ chunkSize \in 0..MaxChunk
    /\ formatBalance \in BOOLEAN
    /\ address = <<>>
    /\ chunked = <<>>
    /\ promises = <<>>
    /\ settleOrder = <<>>
    /\ providerLog = <<>>
    /\ rawBalanceResults = <<>>
    /\ rawBalances = EmptyMap
    /\ callsContext = [calls |-> <<>>, context |-> <<>>]
    /\ decodedMetaResults = EmptyMap
    /\ infoLog = <<>>
    /\ outcome = [status |-> "pending", value |-> <<>>, reason |-> <<>>]
    /\ callArgs = <<>>
    /\ callRet = <<>>

Next ==
    \/ GetAddressReturnsInput
    \/ GetNetwork
    \/ GetNetworkAnswered
    \/ ResolveNameAnswered
    \/ ProviderRequestFails
    \/ FetchChunks
    \/ \E i \in DOMAIN promises : ChunkAnswered(i)
    \/ \E i \in DOMAIN promises : ChunkFails(i)
    \/ RequestMeta
    \/ MetaAnswered
    \/ MetaFails

Spec == Init /\ [][Next]_vars

(***************************************************************************)
(* What one sequential pass over the whole contract list would give.       *)
(***************************************************************************)
AllBalanceResults == tryBlockAndAggregate(BalanceCalls(address, contractAddresses))

ReferenceResults == getNonZeroResults(AllBalanceResults, contractAddresses)

ReferenceOutput ==
    LET cc == buildCallsContext(ReferenceResults)
        decoded == decodeMetaResults(tryBlockAndAggregate(cc.calls), cc.context)
    IN  balancesByContract(decoded.meta, resultDataByContract(ReferenceResults),
                           formatBalance).value

KeptAddresses == {contractAddresses[i] : i \in KeptIndices(AllBalanceResults)}

LoggedMethods == {providerLog[i].method : i \in DOMAIN providerLog}

\* C2: when getTokenBalances is fulfilled, the balance map and the decoded
\* metadata map have the same keys, the result has exactly one entry per contract
\* whose balanceOf result the filter kept, and every entry carries symbol, name,
\* decimals and balanceOf.
C2_SameKeysOneEntryPerKeptContract ==
    (pc = "fulfilled") =>
        /\ DOMAIN rawBalances = DOMAIN decodedMetaResults
        /\ DOMAIN outcome.value = KeptAddresses
        /\ \A k \in DOMAIN outcome.value :
              DOMAIN outcome.value[k] = {"symbol", "name", "decimals", "balanceOf"}

\* balances 0, 500, 0 over three contracts: one entry, 500 at 2 decimals
C2_Witness ==
    /\ pc = "fulfilled"
    /\ formatBalance
    /\ contractAddresses = <<"0xZRO", "0xTKA", "0xZRO">>
    /\ DOMAIN outcome.value = {"0xTKA"}
    /\ outcome.value["0xTKA"]["symbol"] = Str_TKA
    /\ outcome.value["0xTKA"]["decimals"] = 2
    /\ outcome.value["0xTKA"]["balanceOf"] = <<"5", ".", "0">>

\* C6: a well-formed address is returned unchanged without any provider request;
\* otherwise getNetwork is asked first and resolveName only on network 1; on
\* another network the call is rejected naming the chain id, on network 1 an
\* unresolvable name is rejected as invalid, and in both cases no multicall
\* request is made.
C6_GetAddressPaths ==
    LET wellFormed == isAddress(addressOrName)
        aggregated == "tryBlockAndAggregate" \in LoggedMethods
    IN  /\ wellFormed =>
              /\ "getNetwork" \notin LoggedMethods
              /\ "resolveName" \notin LoggedMethods
              /\ (pc # "getAddress" => address = addressOrName)
        /\ "resolveName" \in LoggedMethods =>
              /\ chainId = 1
              /\ providerLog[1].method = "getNetwork"
              /\ providerLog[2] = [method |-> "resolveName", name |-> addressOrName]
        /\ (~wellFormed /\ chainId # 1) =>
              /\ pc \in {"getAddress", "getNetwork", "rejected"}
              /\ ~aggregated
              /\ (pc = "rejected" =>
                    \/ outcome.reason = [error |-> "Chain does not support ENS",
                                         chainId |-> chainId]
                    \/ outcome.reason = [error |-> "ProviderError", request |-> "getNetwork"])
        /\ (~wellFormed /\ chainId = 1 /\ resolveName(addressOrName) = <<>>) =>
              /\ pc \in {"getAddress", "getNetwork", "resolveName", "rejected"}
              /\ ~aggregated
              /\ (pc = "rejected" =>
                    \/ outcome.reason = [error |-> "Invalid ENS domain."]
                    \/ outcome.reason.error = "ProviderError")

\* a name on network 5: rejected after getNetwork alone
C6_Witness ==
    /\ pc = "rejected"
    /\ addressOrName = OwnerName
    /\ chainId = 5
    /\ providerLog = <<[method |-> "getNetwork"]>>
    /\ outcome.reason = [error |-> "Chain does not support ENS", chainId |-> 5]

FailedChunks == {k \in DOMAIN settleOrder : settleOrder[k].failed}

FirstFailed == settleOrder[CHOOSE k \in FailedChunks : \A j \in FailedChunks : k <= j].chunk

\* C7: once the request of a chunk has failed, getTokenBalances is rejected with
\* the error of the first chunk that failed; no mapping is returned, the metadata
\* request is never made and no chunk is requested a second time, whatever the
\* order in which the chunks end.
C7_ChunkFailureFailsTheCall ==
    (FailedChunks # {}) =>
        /\ pc = "rejected"
        /\ outcome = Rejected([error |-> "TransportError", chunk |-> FirstFailed])
        /\ rawBalanceResults = <<>>
        /\ AggregateRequests = RequestsOf(address, chunked)

\* the second of two chunks answers with a balance, then the first fails
C7_Witness ==
    /\ pc = "rejected"
    /\ Len(chunked) = 2
    /\ settleOrder = <<[chunk |-> 2, failed |-> FALSE], [chunk |-> 1, failed |-> TRUE]>>
    /\ promises[2].state = "fulfilled"
    /\ promises[2].value # <<>>

\* C8: whatever the order in which the chunks are answered, the concatenated
\* non-zero results follow the order of contractAddresses and the result is the
\* one a single sequential pass gives: it depends on the inputs alone.
C8_ResultIndependentOfSettleOrder ==
    /\ (pc \in {"awaitMeta", "fulfilled"}) => rawBalanceResults = ReferenceResults
    /\ (pc = "fulfilled") => outcome.value = ReferenceOutput

\* three chunks of one contract each, answered last to first, two balances kept
C8_Witness ==
    /\ pc = "fulfilled"
    /\ chunkSize = 1
    /\ contractAddresses = <<"0xTKA", "0xZRO", "0xMKR">>
    /\ settleOrder[1].chunk = 3
    /\ settleOrder[3].chunk = 1
    /\ rawBalanceResults = <<<<"0xTKA", TRUE, Word(500)>>, <<"0xMKR", TRUE, Word(1)>>>>

\* C10: in a fulfilled run over n contracts with chunkSize c > 0 the multicall
\* contract is asked ceil(n/c) times for balances, with at most c balanceOf calls
\* each, and then once for metadata, with 3 calls per kept balance result (none
\* when nothing was kept); the metadata request is made only after every balance
\* request was answered.
C10_InvocationCount ==
    /\ (Len(AggregateRequests) > Len(chunked)) =>
          \A i \in DOMAIN promises : promises[i].state = "fulfilled"
    /\ (pc = "fulfilled" /\ chunkSize > 0) =>
          LET n == Len(contractAddresses)
              k == (n + chunkSize - 1) \div chunkSize
              reqs == AggregateRequests
          IN  /\ Len(reqs) = k + 1
              /\ \A i \in 1..k :
                    /\ Len(reqs[i].calls) \in 1..chunkSize
                    /\ \A j \in DOMAIN reqs[i].calls :
                          reqs[i].calls[j].callData[1] = Selector("balanceOf")
              /\ Len(reqs[k + 1].calls) = 3 * Cardinality(KeptIndices(AllBalanceResults))
              /\ \A j \in DOMAIN reqs[k + 1].calls :
                    reqs[k + 1].calls[j].callData[1] # Selector("balanceOf")

\* three contracts in chunks of two, none with a balance: two balance requests
\* and a metadata request without calls
C10_Witness ==
    /\ pc = "fulfilled"
    /\ chunkSize = 2
    /\ contractAddresses = <<"0xZRO", "0xZRO", "0xZRO">>
    /\ Len(AggregateRequests) = 3
    /\ AggregateRequests[3].calls = <<>>
    /\ outcome.value = EmptyMap

====
